---- MODULE Spec2Model ----
(***************************************************************************)
(* Model of the ArikaJS Encrypter (AES-256-GCM envelopes with key rotation,*)
(* TTL and context binding; HMAC-SHA256 signed envelopes).                 *)
(*                                                                         *)
(* Byte strings, JavaScript values and texts are symbolic terms.  The      *)
(* library primitives the Encrypter calls (Buffer, JSON, zlib, the GCM     *)
(* cipher, HMAC) are operators that behave as Node.js does on those terms: *)
(* GCM is an ideal AEAD over a stream cipher, HMAC an ideal keyed hash.    *)
(***************************************************************************)
EXTENDS Integers, Sequences, FiniteSets, TLC

VARIABLES
    pc,        \* "idle" | "sent" | "done" | "signed" | "verified"
    now,       \* Date.now(), in milliseconds
    ticks,     \* number of clock steps taken so far
    call,      \* the encrypt / sign call that produced the payload
    payload,   \* the transport string in flight
    tamper,    \* what was done to the payload in transit
    dcall,     \* the decrypt / verify call
    res,       \* what decrypt / verify returned or threw
    attempts   \* createDecipheriv calls made by the last decrypt

vars == <<pc, now, ticks, call, payload, tamper, dcall, res, attempts>>

----------------------------------------------------------------------------
(* Bounds and program constants *)

\* Date.now() at the start of a behaviour (ms).
Epoch == 5500

\* How many times the clock may advance between encrypt and decrypt.
MaxTicks == 2

\* options.ttl * 1000
MsPerSecond == 1000

\* The longest key list handed to the constructor.
MaxKeys == 2

\* k.length !== 32
KeyLength == 32

\* Length of the tag cipher.getAuthTag() returns for aes-256-gcm.
GcmTagLength == 16

\* The shortest tag length decipher.setAuthTag() accepts for GCM.
ShortTagLength == 4

\* payload.v
EnvelopeVersion == 1

\* The key rings of the Encrypters in play (this.keys after construction).
Rings == {<<"K1">>, <<"K2", "K1">>, <<"K3", "K2", "K1">>}

\* randomBytes(16) draws one of these.
IvIds == {"n1", "n2"}

----------------------------------------------------------------------------
(* JavaScript values *)

Undefined == [t |-> "undefined"]
Null == [t |-> "null"]
Num(n) == [t |-> "number", n |-> n]
Bool(b) == [t |-> "boolean", v |-> b]
\* A string known by its characters.
Text(s) == [t |-> "string", text |-> s]
\* {id: 1}
Obj(n) == [t |-> "object", id |-> n]

\* The values callers encrypt and sign.
Values == {Text(""), Text("1"), Obj(1)}

\* The ttl options callers pass (seconds); Undefined is "no ttl".
Ttls == {Undefined, Num(0), Num(1), Num(-1)}

\* The context options callers pass to encrypt and to decrypt.
EncContexts == {Undefined, Text(""), Text("A")}
DecContexts == {Undefined, Text(""), Text("A"), Text("B")}

----------------------------------------------------------------------------
(* Byte strings *)

\* Buffer.from(s) / Buffer.from(s, 'utf8') of a text.
Utf8(s) == [b |-> "utf8", text |-> s]
EmptyBytes == Utf8("")
IsEmptyBytes(x) == x = EmptyBytes
\* randomBytes(16)
IvBytes(i) == [b |-> "iv", id |-> i]
\* Bytes that are none of the above (attacker-chosen noise).
JunkBytes == [b |-> "junk"]

\* buf.toString('base64'): the canonical base64 string of the bytes.
ToBase64(x) == [t |-> "string", bytes |-> x, form |-> "canonical"]
\* Another string that Node decodes to the same bytes (padding dropped,
\* unused trailing bits changed, url-safe alphabet, ignored characters).
AltBase64(x) == [t |-> "string", bytes |-> x, form |-> "alt"]

IsBase64Str(v) == v.t = "string" /\ "bytes" \in DOMAIN v
IsText(v) == v.t = "string" /\ "text" \in DOMAIN v
IsHexStr(v) == v.t = "string" /\ "mac" \in DOMAIN v

\* JavaScript truthiness (ToBoolean).
Truthy(v) ==
    CASE v.t = "undefined" -> FALSE
      [] v.t = "null" -> FALSE
      [] v.t = "number" -> v.n # 0
      [] v.t = "boolean" -> v.v
      [] IsText(v) -> v.text # ""
      [] IsBase64Str(v) -> ~(IsEmptyBytes(v.bytes) /\ v.form = "canonical")
      [] OTHER -> TRUE

----------------------------------------------------------------------------
(* Library primitives: JSON, String, zlib, utf8 *)

\* The JSON values JSON.parse can produce here.
JsonUniverse == Values \cup {Num(1), Null}

\* JSON.stringify(value) of a caller's value.
JsonStringify(v) ==
    CASE v.t = "string" -> "\"" \o v.text \o "\""
      [] v.t = "number" -> ToString(v.n)
      [] v.t = "object" -> "{\"id\":" \o ToString(v.id) \o "}"
      [] OTHER -> "null"

\* JSON.parse(text) throws a SyntaxError unless the text is JSON.
JsonParses(s) == \E v \in JsonUniverse : JsonStringify(v) = s
JsonParse(s) == CHOOSE v \in JsonUniverse : JsonStringify(v) = s

\* String(value)
JsString(v) ==
    CASE v.t = "string" -> v.text
      [] v.t = "number" -> ToString(v.n)
      [] v.t = "object" -> "[object Object]"
      [] OTHER -> "null"

\* deflateSync(buf)
Deflate(x) == [b |-> "zlib", of |-> x]
\* inflateSync(buf) throws unless buf is a zlib stream.
Inflates(x) == x.b = "zlib"
Inflate(x) == x.of

\* What buf.toString('utf8') yields for bytes that are not text.
ReplacementText == "\\uFFFD"
\* buf.toString('utf8')
Utf8ToString(x) == IF x.b = "utf8" THEN x.text ELSE ReplacementText

----------------------------------------------------------------------------
(* Library primitives: AES-256-GCM *)

\* No associated data: GCM authenticates the empty AAD.
NoAad == ""
\* cipher.setAAD(Buffer.from(options.context)) happens only for a truthy context.
AadOf(context) == IF Truthy(context) THEN context.text ELSE NoAad

\* cipher.update(data) + cipher.final(): counter mode, so the ciphertext is as
\* long as the plaintext and the empty plaintext gives the empty ciphertext.
GcmCiphertext(key, iv, pt) ==
    IF IsEmptyBytes(pt) THEN EmptyBytes
    ELSE [b |-> "ct", key |-> key, iv |-> iv, pt |-> pt]

\* cipher.getAuthTag(): the full-length tag over key, iv, AAD and ciphertext.
GcmTag(key, iv, aad, ct) ==
    [b |-> "tag", key |-> key, iv |-> iv, aad |-> aad, ct |-> ct,
     len |-> GcmTagLength]

\* The first n bytes of a tag.
TruncateTag(tag, n) == [tag EXCEPT !.len = n]

\* decipher.setAuthTag(tag) throws on a length GCM does not allow.  No
\* authTagLength is given to createDecipheriv, so every allowed length passes.
ValidTagLength(tag) ==
    \/ tag.b = "tag" /\ tag.len \in {ShortTagLength, 8, 12, 13, 14, 15, GcmTagLength}
    \/ tag.b \in {"junk", "iv"}

\* decipher.final() succeeds iff the supplied tag is the prefix, of its own
\* length, of the tag recomputed from key, iv, AAD and ciphertext.
GcmAuthentic(key, iv, aad, ct, tag) ==
    /\ tag.b = "tag"
    /\ TruncateTag(tag, GcmTagLength) = GcmTag(key, iv, aad, ct)

\* decipher.update(value): the keystream of (key, iv) removed.
GcmPlaintext(key, iv, ct) ==
    IF IsEmptyBytes(ct) THEN EmptyBytes
    ELSE IF ct.b = "ct" /\ ct.key = key /\ ct.iv = iv THEN ct.pt
    ELSE JunkBytes

----------------------------------------------------------------------------
(* Transport strings *)

\* JSON.stringify(obj) as a text, and a text that is not JSON.
JsonTextOf(v) == [syntax |-> "json", value |-> v]
NotJsonText == [syntax |-> "none"]
\* Buffer.from(text).toString('base64')
Base64OfText(x) == [enc |-> "base64", of |-> x]
\* A string that is not base64, such as 'invalid-base64'.
NotBase64 == [enc |-> "none"]

\* Buffer.from(payload, 'base64').toString('utf8') never throws: what is not
\* base64 decodes to bytes that are no JSON text.
DecodeTransport(p) == IF p.enc = "base64" THEN p.of ELSE NotJsonText

\* obj.name, undefined when the property is missing.
Field(obj, name) == IF name \in DOMAIN obj THEN obj[name] ELSE Undefined

----------------------------------------------------------------------------
(* Errors *)

\* new DecryptionException(): the default message.
GenericError ==
    [name |-> "DecryptionException",
     message |-> "The payload is invalid or has been tampered with."]
ExpiredError ==
    [name |-> "DecryptionException", message |-> "The payload has expired."]
ContextRequiredError ==
    [name |-> "DecryptionException",
     message |-> "The payload requires a context for decryption."]
SignatureError ==
    [name |-> "DecryptionException", message |-> "Signature verification failed."]
\* What Buffer.from(x, 'base64') throws for an x that is no string.
TypeError ==
    [name |-> "TypeError", message |-> "The first argument must be of type string"]

\* A call that returned v / that threw e at the given stage of the method.
Returned(v) == [ok |-> TRUE, val |-> v, stage |-> "return"]
Threw(e, stage) == [ok |-> FALSE, err |-> e, stage |-> stage]

----------------------------------------------------------------------------
(* Encrypter.constructor / Encrypter.parseKey *)

\* A key string: whether it starts with 'base64:', the number of characters
\* after that prefix (base64 digits, padding aside, when prefixed), and the
\* number of bytes its characters take in UTF-8 beyond one each.
KeyString(prefixed, chars, extra) ==
    [prefixed |-> prefixed, chars |-> chars, extra |-> extra]

\* The number of base64 digits that encode n bytes.
Base64Digits(n) == (n * 8 + 5) \div 6

\* The key strings configurations hold.
KeyStrings ==
    {KeyString(FALSE, KeyLength, 0),
     KeyString(FALSE, KeyLength - 1, 0),
     KeyString(FALSE, KeyLength, 1),
     KeyString(FALSE, KeyLength - 2, 2),
     KeyString(TRUE, Base64Digits(KeyLength), 0),
     KeyString(TRUE, Base64Digits(KeyLength - 1), 0),
     KeyString(TRUE, KeyLength, 0)}

\* new Encrypter(key): one key string or an array of them.
ConstructorArgs ==
    {[array |-> FALSE, key |-> k] : k \in KeyStrings}
        \cup {[array |-> TRUE, keys |-> ks] :
                 ks \in UNION {[1..n -> KeyStrings] : n \in 0..MaxKeys}}

\* Encrypter.parseKey: Buffer.from(key.substring(7), 'base64') yields six bits
\* a digit, Buffer.from(key) the UTF-8 bytes of the string.
ParseKey(k) ==
    IF k.prefixed THEN [b |-> "key", len |-> (k.chars * 6) \div 8]
    ELSE [b |-> "key", len |-> k.chars + k.extra]

NoKeyError ==
    [name |-> "Error", message |-> "At least one encryption key must be provided."]
KeyLengthError ==
    [name |-> "Error", message |-> "Each encryption key must be 32 bytes."]

\* Array.isArray(key) ? key : [key]
KeyList(arg) == IF arg.array THEN arg.keys ELSE <<arg.key>>

\* A slip that would validate the active key only.
ConstructOp_FirstKeyOnly(arg) ==
    LET keys == [i \in 1..Len(KeyList(arg)) |-> ParseKey(KeyList(arg)[i])]
    IN  IF Len(keys) = 0 THEN Threw(NoKeyError, "empty")
        ELSE IF keys[1].len # KeyLength THEN Threw(KeyLengthError, "length")
        ELSE Returned([t |-> "Encrypter", keys |-> keys])

\* The constructor: returns the Encrypter with its this.keys, or throws.
ConstructOp(arg) ==
    LET keys == [i \in 1..Len(KeyList(arg)) |-> ParseKey(KeyList(arg)[i])]
    IN  IF Len(keys) = 0 THEN Threw(NoKeyError, "empty")
        ELSE IF \E i \in 1..Len(keys) : keys[i].len # KeyLength
             THEN Threw(KeyLengthError, "length")
        ELSE Returned([t |-> "Encrypter", keys |-> keys])

----------------------------------------------------------------------------
(* Encrypter.encrypt *)

\* options.serialize !== false
Serializes(options) == options.serialize # Bool(FALSE)

\* The bytes handed to cipher.update.
EncryptData(value, options) ==
    LET data == IF Serializes(options) THEN JsonStringify(value)
                ELSE JsString(value)
    IN  IF options.compress = Bool(TRUE) THEN Deflate(Utf8(data)) ELSE Utf8(data)

\* A slip that would take the newest key from the wrong end of the ring.
ActiveKey_Last(ring) == ring[Len(ring)]

\* this.keys[0], the key createCipheriv is given.
ActiveKey(ring) == ring[1]

\* The payload object encrypt builds; a property it does not set is undefined
\* and JSON.stringify leaves it out.
EncryptEnvelope(ring, value, options, iv, time) ==
    LET aad == AadOf(options.context)
        ct == GcmCiphertext(ActiveKey(ring), iv, EncryptData(value, options))
    IN  [t |-> "object",
         iv |-> ToBase64(iv),
         value |-> ToBase64(ct),
         tag |-> ToBase64(GcmTag(ActiveKey(ring), iv, aad, ct)),
         v |-> Num(EnvelopeVersion),
         c |-> IF Truthy(options.compress) THEN Bool(TRUE) ELSE Undefined,
         exp |-> IF Truthy(options.ttl)
                 THEN Num(time + options.ttl.n * MsPerSecond) ELSE Undefined,
         aad |-> IF Truthy(options.context) THEN Bool(TRUE) ELSE Undefined]

EncryptOp(ring, value, options, iv, time) ==
    Base64OfText(JsonTextOf(EncryptEnvelope(ring, value, options, iv, time)))

----------------------------------------------------------------------------
(* Encrypter.decrypt *)

ValidPayload(data) ==
    /\ data.t = "object"
    /\ Truthy(Field(data, "iv"))
    /\ Truthy(Field(data, "value"))
    /\ Truthy(Field(data, "tag"))

\* A slip that would tell the caller which check rejected the payload.
GetJsonPayload_Leaky(p) ==
    LET decoded == DecodeTransport(p)
    IN  IF decoded.syntax # "json" THEN Threw(GenericError, "parse")
        ELSE IF ~ValidPayload(decoded.value)
             THEN Threw([GenericError EXCEPT !.message = "The payload is malformed."],
                        "fields")
        ELSE [ok |-> TRUE, data |-> decoded.value]

GetJsonPayload(p) ==
    LET decoded == DecodeTransport(p)
    IN  IF decoded.syntax # "json" THEN Threw(GenericError, "parse")
        ELSE IF ~ValidPayload(decoded.value) THEN Threw(GenericError, "fields")
        ELSE [ok |-> TRUE, data |-> decoded.value]

\* Buffer.from(x, 'base64') throws a TypeError unless x is a string.
BufferFromThrows(x) == x.t # "string"
BufferFromBase64(x) == IF IsBase64Str(x) THEN x.bytes ELSE JunkBytes

\* Date.now() > exp
JsGreater(time, exp) == exp.t = "number" /\ time > exp.n

\* One pass of the body of the key loop; ok = FALSE is any throw inside the try.
TryKey(key, data, options) ==
    LET iv == BufferFromBase64(data.iv)
        tag == BufferFromBase64(data.tag)
        aad == AadOf(options.context)
        ct == BufferFromBase64(data.value)
        decrypted == GcmPlaintext(key, iv, ct)
        compressed == Field(data, "c") = Bool(TRUE)
        result == IF compressed THEN Inflate(decrypted) ELSE decrypted
        finalData == Utf8ToString(result)
    IN  IF IsEmptyBytes(iv) \/ ~ValidTagLength(tag) THEN [ok |-> FALSE]
        ELSE IF data.value.t # "string" THEN [ok |-> FALSE]
        ELSE IF ~GcmAuthentic(key, iv, aad, ct, tag) THEN [ok |-> FALSE]
        ELSE IF compressed /\ ~Inflates(decrypted) THEN [ok |-> FALSE]
        ELSE IF options.unserialize = Bool(FALSE)
             THEN [ok |-> TRUE, val |-> Text(finalData)]
        ELSE IF ~JsonParses(finalData) THEN [ok |-> FALSE]
        ELSE [ok |-> TRUE, val |-> JsonParse(finalData)]

RECURSIVE TryKeys(_, _, _, _)
\* for (const key of this.keys) from index i on; then the generic throw.
TryKeys(ring, i, data, options) ==
    IF i > Len(ring) THEN Threw(GenericError, "keys")
    ELSE LET r == TryKey(ring[i], data, options)
         IN  IF r.ok THEN Returned(r.val)
             ELSE TryKeys(ring, i + 1, data, options)

\* A slip that would test the context requirement before the expiry.
DecryptOp_ContextFirst(ring, p, options, time) ==
    LET jp == GetJsonPayload(p)
    IN  IF ~jp.ok THEN jp
        ELSE IF Truthy(Field(jp.data, "aad")) /\ ~Truthy(options.context)
             THEN Threw(ContextRequiredError, "context")
        ELSE IF Truthy(Field(jp.data, "exp")) /\ JsGreater(time, jp.data.exp)
             THEN Threw(ExpiredError, "expiry")
        ELSE IF BufferFromThrows(jp.data.iv) \/ BufferFromThrows(jp.data.tag)
             THEN Threw(TypeError, "buffer")
        ELSE TryKeys(ring, 1, jp.data, options)

DecryptOp(ring, p, options, time) ==
    LET jp == GetJsonPayload(p)
    IN  IF ~jp.ok THEN jp
        ELSE IF Truthy(Field(jp.data, "exp")) /\ JsGreater(time, jp.data.exp)
             THEN Threw(ExpiredError, "expiry")
        ELSE IF Truthy(Field(jp.data, "aad")) /\ ~Truthy(options.context)
             THEN Threw(ContextRequiredError, "context")
        ELSE IF BufferFromThrows(jp.data.iv) \/ BufferFromThrows(jp.data.tag)
             THEN Threw(TypeError, "buffer")
        ELSE TryKeys(ring, 1, jp.data, options)

RECURSIVE KeysTried(_, _, _, _)
\* The passes the key loop makes from index i on, each of which calls
\* createDecipheriv once: up to and including the first that returns.
KeysTried(ring, i, data, options) ==
    IF i > Len(ring) THEN 0
    ELSE IF TryKey(ring[i], data, options).ok THEN 1
    ELSE 1 + KeysTried(ring, i + 1, data, options)

\* The createDecipheriv calls of one decrypt call: none unless it reached
\* the key loop.
CipherAttempts(ring, p, options, time) ==
    IF DecryptOp(ring, p, options, time).stage \in {"keys", "return"}
    THEN KeysTried(ring, 1, GetJsonPayload(p).data, options)
    ELSE 0

----------------------------------------------------------------------------
(* Encrypter.sign / Encrypter.verify / Encrypter.hash *)

\* The number of characters of a hex SHA-256 digest.
HexDigestLength == 64

\* createHmac('sha256', key).update(value).digest('hex')
HmacHex(key, value) ==
    [t |-> "string", mac |-> [key |-> key, msg |-> value],
     chars |-> HexDigestLength]

\* A slip that would sign with the last key of the ring.
Hash_LastKey(ring, value) == HmacHex(ring[Len(ring)], value)

\* Encrypter.hash: always this.keys[0].
Hash(ring, value) == HmacHex(ring[1], value)

SignEnvelope(ring, value) ==
    [t |-> "object",
     value |-> Text(JsonStringify(value)),
     signature |-> Hash(ring, JsonStringify(value))]

SignOp(ring, value) == Base64OfText(JsonTextOf(SignEnvelope(ring, value)))

\* The array of the character codes of a string.
CharCodes(x) == [t |-> "array", codes |-> x]

\* Buffer.from(x) throws a TypeError unless x is a string or an array of bytes.
BufferFromValueThrows(x) == x.t \notin {"string", "array"}
\* Buffer.from(x): the utf8 bytes of a string, the bytes listed by an array.
BufferFromValue(x) ==
    CASE x.t = "array" -> [b |-> "chars", of |-> x.codes]
      [] IsText(x) -> Utf8(x.text)
      [] OTHER -> [b |-> "chars", of |-> x]

ByteLength(x) ==
    CASE x.b = "utf8" -> Len(x.text)
      [] x.b = "chars" /\ IsHexStr(x.of) -> x.of.chars
      [] OTHER -> GcmTagLength

\* One pass of the body of verify's key loop:
\* "match", "next", or "throw" when anything in it throws.
VerifyKey(key, decoded) ==
    IF decoded.value.t # "string" \/ ~IsText(decoded.value) THEN "throw"
    ELSE IF BufferFromValueThrows(decoded.signature) THEN "throw"
    ELSE LET mine == BufferFromValue(HmacHex(key, decoded.value.text))
             theirs == BufferFromValue(decoded.signature)
         IN  IF ByteLength(mine) # ByteLength(theirs) THEN "throw"
             ELSE IF mine # theirs THEN "next"
             ELSE IF JsonParses(decoded.value.text) THEN "match"
             ELSE "throw"

RECURSIVE VerifyKeys(_, _, _)
VerifyKeys(ring, i, decoded) ==
    IF i > Len(ring) THEN Threw(SignatureError, "keys")
    ELSE LET r == VerifyKey(ring[i], decoded)
         IN  IF r = "match" THEN Returned(JsonParse(decoded.value.text))
             ELSE IF r = "throw" THEN Threw(SignatureError, "caught")
             ELSE VerifyKeys(ring, i + 1, decoded)

VerifyOp(ring, p) ==
    LET text == DecodeTransport(p)
    IN  IF text.syntax # "json" THEN Threw(SignatureError, "parse")
        ELSE IF text.value.t \in {"null", "undefined"}
             THEN Threw(SignatureError, "caught")
        ELSE IF ~Truthy(Field(text.value, "value"))
                \/ ~Truthy(Field(text.value, "signature"))
             THEN Threw(SignatureError, "fields")
        ELSE VerifyKeys(ring, 1, text.value)

\* The values a holder of a signed payload, without any key, can put in
\* place of its signature.
SignatureReplacements(obj) ==
    {Undefined, Num(1),
     HmacHex("none", "junk"),
     [obj.signature EXCEPT !.chars = HexDigestLength - 1],
     CharCodes(obj.signature)}

\* ... and in place of its value.
ValueReplacements(obj) ==
    {Undefined, Num(1), Text(""), Text("tampered")}
        \cup {Text(JsonStringify(v)) : v \in Values}

----------------------------------------------------------------------------
(* What can happen to a payload between encrypt and decrypt *)

NoCall == [op |-> "none"]
NoTamper == [kind |-> "none"]
NoResult == [ok |-> FALSE, stage |-> "none"]

\* The decoded envelope object of the payload in flight.
EnvelopeOf(p) == p.of.value

\* The values a holder of the payload, without any key, can put in place of
\* the field f of the envelope obj.
\* The envelope's properties: the three that carry the cipher's output, and
\* the four annotations.
CipherFields == {"iv", "value", "tag"}
EnvelopeFields == CipherFields \cup {"v", "c", "exp", "aad"}

\* An instant later than every call.
LaterInstant == Epoch + (MaxTicks + 1) * MsPerSecond

FieldReplacements(obj, f) ==
    IF f \in CipherFields
    THEN {Undefined, Num(1), ToBase64(JunkBytes), AltBase64(obj[f].bytes)}
        \cup (IF f = "iv" THEN {ToBase64(IvBytes(i)) : i \in IvIds} ELSE {})
        \cup (IF f = "value" THEN {ToBase64(EmptyBytes)} ELSE {})
        \cup (IF f = "tag"
              THEN {ToBase64(TruncateTag(obj[f].bytes, ShortTagLength))} ELSE {})
    ELSE {Undefined}
        \cup (IF f = "v" THEN {Num(EnvelopeVersion + 1)} ELSE {})
        \cup (IF f = "exp" THEN {Num(LaterInstant)} ELSE {})
        \cup (IF f \in {"c", "aad"} THEN {Bool(TRUE)} ELSE {})

\* Strings that no encrypt call produced.
ForeignPayloads ==
    {NotBase64,
     Base64OfText(NotJsonText),
     Base64OfText(JsonTextOf(Null)),
     Base64OfText(JsonTextOf(Num(1))),
     Base64OfText(JsonTextOf([t |-> "object", foo |-> Text("bar")]))}

----------------------------------------------------------------------------
(* The state machine *)

Init ==
    /\ pc = "idle"
    /\ now = Epoch
    /\ ticks = 0
    /\ call = NoCall
    /\ payload = NotBase64
    /\ tamper = NoTamper
    /\ dcall = NoCall
    /\ res = NoResult
    /\ attempts = 0

\* new Encrypter(key)
Construct ==
    /\ pc = "idle"
    /\ \E arg \in ConstructorArgs :
        /\ dcall' = [op |-> "construct", arg |-> arg, at |-> now]
        /\ res' = ConstructOp(arg)
    /\ pc' = "done"
    /\ UNCHANGED <<now, ticks, call, payload, tamper, attempts>>

\* encrypter.encrypt(value, options) on an Encrypter holding ring.
Encrypt ==
    /\ pc = "idle"
    /\ \E ring \in Rings, value \in Values, iv \in IvIds,
          serialize \in {Undefined, Bool(FALSE)},
          compress \in {Undefined, Bool(TRUE)},
          ttl \in Ttls, context \in EncContexts :
            LET options == [serialize |-> serialize, compress |-> compress,
                            ttl |-> ttl, context |-> context]
            IN  /\ call' = [op |-> "encrypt", ring |-> ring, value |-> value,
                            options |-> options, iv |-> IvBytes(iv), at |-> now]
                /\ payload' = EncryptOp(ring, value, options, IvBytes(iv), now)
    /\ pc' = "sent"
    /\ UNCHANGED <<now, ticks, tamper, dcall, res, attempts>>

\* A string that did not come from encrypt is handed to decrypt.
Forge ==
    /\ pc = "idle"
    /\ \E p \in ForeignPayloads :
        /\ payload' = p
        /\ tamper' = [kind |-> "foreign"]
    /\ pc' = "sent"
    /\ UNCHANGED <<now, ticks, call, dcall, res, attempts>>

\* One field of the envelope is replaced by a different value and the
\* envelope is encoded again.
TamperField ==
    /\ pc = "sent"
    /\ call.op = "encrypt"
    /\ tamper = NoTamper
    /\ \E f \in EnvelopeFields :
        \E to \in FieldReplacements(EnvelopeOf(payload), f) :
            /\ to # EnvelopeOf(payload)[f]
            /\ payload' = Base64OfText(JsonTextOf(
                              [EnvelopeOf(payload) EXCEPT ![f] = to]))
            /\ tamper' = [kind |-> "field", field |-> f, to |-> to]
    /\ UNCHANGED <<pc, now, ticks, call, dcall, res, attempts>>

\* Time passes.
Tick ==
    /\ pc = "sent"
    /\ ticks < MaxTicks
    /\ now' = now + MsPerSecond
    /\ ticks' = ticks + 1
    /\ UNCHANGED <<pc, call, payload, tamper, dcall, res, attempts>>

\* encrypter.decrypt(payload, options) on an Encrypter holding ring.
Decrypt ==
    /\ pc = "sent"
    /\ call.op \in {"encrypt", "none"}
    /\ \E ring \in Rings, unserialize \in {Undefined, Bool(FALSE)},
          context \in DecContexts :
            LET options == [unserialize |-> unserialize, context |-> context]
            IN  /\ dcall' = [op |-> "decrypt", ring |-> ring,
                             options |-> options, at |-> now]
                /\ res' = DecryptOp(ring, payload, options, now)
                /\ attempts' = CipherAttempts(ring, payload, options, now)
    /\ pc' = "done"
    /\ UNCHANGED <<now, ticks, call, payload, tamper>>

\* encrypter.sign(value) on an Encrypter holding ring.
Sign ==
    /\ pc = "idle"
    /\ \E ring \in Rings, value \in Values :
        /\ call' = [op |-> "sign", ring |-> ring, value |-> value, at |-> now]
        /\ payload' = SignOp(ring, value)
    /\ pc' = "sent"
    /\ UNCHANGED <<now, ticks, tamper, dcall, res, attempts>>

\* The value or the signature of a signed envelope is replaced by a
\* different value and the envelope is encoded again.
TamperSigned ==
    /\ pc = "sent"
    /\ call.op = "sign"
    /\ tamper = NoTamper
    /\ \E f \in {"value", "signature"} :
        \E to \in (IF f = "value" THEN ValueReplacements(EnvelopeOf(payload))
                   ELSE SignatureReplacements(EnvelopeOf(payload))) :
            /\ to # EnvelopeOf(payload)[f]
            /\ payload' = Base64OfText(JsonTextOf(
                              [EnvelopeOf(payload) EXCEPT ![f] = to]))
            /\ tamper' = [kind |-> "field", field |-> f, to |-> to]
    /\ UNCHANGED <<pc, now, ticks, call, dcall, res, attempts>>

\* encrypter.verify(payload) on an Encrypter holding ring.
Verify ==
    /\ pc = "sent"
    /\ call.op \in {"sign", "none"}
    /\ \E ring \in Rings :
        /\ dcall' = [op |-> "verify", ring |-> ring, at |-> now]
        /\ res' = VerifyOp(ring, payload)
    /\ pc' = "done"
    /\ UNCHANGED <<now, ticks, call, payload, tamper, attempts>>

Next ==
    \/ Construct
    \/ Encrypt \/ Forge \/ TamperField \/ Tick \/ Decrypt
    \/ Sign \/ TamperSigned \/ Verify

Spec == Init /\ [][Next]_vars

----------------------------------------------------------------------------
(* Vocabulary of the properties *)

\* The keys of a ring.
KeysOf(ring) == {ring[i] : i \in 1..Len(ring)}

\* A payload made by encrypt has been handed to decrypt.
Decrypted == pc = "done" /\ call.op = "encrypt" /\ dcall.op = "decrypt"
\* A payload made by sign has been handed to verify.
Verified == pc = "done" /\ call.op = "sign" /\ dcall.op = "verify"

Untampered == tamper = NoTamper
FieldTampered(f) == tamper.kind = "field" /\ tamper.field = f

\* decrypt was called with unserialize equal to serialize and the same context.
MatchingOptions ==
    /\ dcall.options.unserialize = call.options.serialize
    /\ dcall.options.context = call.options.context

\* The instant at which a payload encrypted with a numeric ttl expires.
Deadline == call.at + call.options.ttl.n * MsPerSecond
HasTtl == call.options.ttl.t = "number"
\* No ttl, or a ttl that has not elapsed when decrypt is called.
NotElapsed == ~HasTtl \/ dcall.at <= Deadline

\* With serialize off the caller passes a string.
SerializableInput == Serializes(call.options) \/ call.value.t = "string"

\* The decrypting Encrypter holds the key the payload was encrypted with.
HoldsKey == call.ring[1] \in KeysOf(dcall.ring)

\* The bytes a field value decodes to differ from those encrypt wrote.
BytesDiffer(f) ==
    \/ ~IsBase64Str(tamper.to)
    \/ tamper.to.bytes # EncryptEnvelope(call.ring, call.value, call.options,
                                         call.iv, call.at)[f].bytes

----------------------------------------------------------------------------
(* C1 *)

\* C1: round trip.  For every serializable value, key ring and combination of
\* encrypt options (serialize, compress, an unelapsed ttl, an optional
\* context), decrypt on the same Encrypter with the matching options returns
\* the value that was encrypted.
C1_RoundTrip ==
    (/\ Decrypted /\ Untampered
     /\ dcall.ring = call.ring
     /\ MatchingOptions /\ NotElapsed /\ SerializableInput)
        => res = Returned(call.value)

----------------------------------------------------------------------------
(* C2 *)

\* C2: tamper detection.  The part of the claim that matters most: when the
\* iv, value or tag field of an envelope is replaced by a string that decodes
\* to other bytes (or by something that is no string), decrypt on an Encrypter
\* holding the encrypting key never returns a value.
C2_TamperDetected ==
    (/\ Decrypted /\ HoldsKey
     /\ \E f \in {"iv", "value", "tag"} : FieldTampered(f) /\ BytesDiffer(f))
        => ~res.ok

----------------------------------------------------------------------------
(* C3 *)

\* C3: key rotation, read compatibility.  A payload encrypted under the active
\* key K decrypts to the original value on every Encrypter whose ring holds K
\* at any position (the options matching and the ttl not elapsed).
C3_ReadCompatible ==
    (/\ Decrypted /\ Untampered /\ HoldsKey
     /\ MatchingOptions /\ NotElapsed /\ SerializableInput)
        => res = Returned(call.value)

----------------------------------------------------------------------------
(* C4 *)

\* The payload was encrypted under a ring whose active key the decrypting
\* Encrypter does not hold.
WriteIsolated == Decrypted /\ Untampered /\ ~HoldsKey

\* The key the tag of the envelope in flight was computed with.
EnvelopeKey == EnvelopeOf(payload).tag.bytes.key

\* The expiry check of decrypt fires / its context check fires.
ExpiryFires == Truthy(call.options.ttl) /\ dcall.at > Deadline
ContextCheckFires ==
    ~ExpiryFires /\ Truthy(call.options.context) /\ ~Truthy(dcall.options.context)

\* C4 as stated: encrypt uses the key at index 0 only, and a payload encrypted
\* under [K_new, K_old] fails with the generic DecryptionError on an Encrypter
\* that holds only K_old.
C4_WriteIsolated_Original ==
    WriteIsolated => (EnvelopeKey = call.ring[1] /\ ~res.ok /\ res.err = GenericError)

\* C4 amended: encrypt uses the key at index 0 only, and such a payload never
\* decrypts: decrypt raises the generic DecryptionError, or else the
\* expiration error when the payload has expired, or the context-required
\* error when the payload was bound to a context and none is supplied.
C4_WriteIsolated ==
    WriteIsolated =>
        /\ EnvelopeKey = call.ring[1]
        /\ ~res.ok
        /\ res.err \in {GenericError, ExpiredError, ContextRequiredError}
        /\ res.err = ExpiredError => ExpiryFires
        /\ res.err = ContextRequiredError => ContextCheckFires

\* A payload encrypted under [K2, K1] has been refused, with the generic
\* error, by the Encrypter holding only K1.
C4_Witness ==
    /\ WriteIsolated
    /\ call.ring = <<"K2", "K1">> /\ dcall.ring = <<"K1">>
    /\ MatchingOptions
    /\ ~res.ok /\ res.err = GenericError

----------------------------------------------------------------------------
(* C5 *)

\* C5: signing round trip and tamper detection.  verify(sign(v)) on the same
\* Encrypter returns v, and a signed envelope whose value or signature field
\* was changed to a different value makes verify raise the signature error.
C5_SignRoundTrip ==
    Verified =>
        /\ (Untampered /\ dcall.ring = call.ring) => res = Returned(call.value)
        /\ (FieldTampered("value") \/ FieldTampered("signature"))
               => (~res.ok /\ res.err = SignatureError)

----------------------------------------------------------------------------
(* C6 *)

\* The signature of the envelope equals, byte for byte, the keyed hash of its
\* value under the key.
SignatureMatches(key, obj) ==
    /\ IsText(Field(obj, "value"))
    /\ ~BufferFromValueThrows(Field(obj, "signature"))
    /\ BufferFromValue(obj.signature) = BufferFromValue(HmacHex(key, obj.value.text))

\* C6: key rotation for signatures.  sign computes the digest with the key at
\* index 0 only; verify accepts a signed payload iff its signature equals the
\* keyed hash of its value under at least one key of the ring; so a payload
\* signed under the active key K verifies on a ring that holds K and does
\* not verify on a ring that does not.
C6_SignatureRotation ==
    Verified =>
        /\ Untampered => EnvelopeOf(payload).signature.mac.key = call.ring[1]
        /\ res.ok <=> \E k \in KeysOf(dcall.ring) :
                          SignatureMatches(k, EnvelopeOf(payload))
        /\ (Untampered /\ call.ring[1] \in KeysOf(dcall.ring))
               => res = Returned(call.value)
        /\ (Untampered /\ call.ring[1] \notin KeysOf(dcall.ring))
               => (~res.ok /\ res.err = SignatureError)

\* A payload signed under [K1] has verified on the Encrypter holding [K2, K1].
C6_Witness ==
    /\ Verified /\ Untampered
    /\ call.ring = <<"K1">> /\ dcall.ring = <<"K2", "K1">>
    /\ res = Returned(call.value)

----------------------------------------------------------------------------
(* C7 *)

\* C7: expiry.  What the expiry half of the claim requires at the least: a
\* payload encrypted with ttl = t seconds at time T0 and decrypted, with the
\* correct key, at a time now > T0 + t is refused: decrypt returns no value.
C7_Expiry ==
    (Decrypted /\ Untampered /\ HoldsKey /\ HasTtl /\ dcall.at > Deadline)
        => ~res.ok

----------------------------------------------------------------------------
(* C8 *)

\* C8: context binding.  The "only" half of the claim: a payload encrypted
\* with a context A does not decrypt, whatever the key ring, when decrypt is
\* called with another context or with none.
C8_ContextBinding ==
    (/\ Decrypted /\ Untampered /\ HoldsKey
     /\ call.options.context # Undefined
     /\ dcall.options.context # call.options.context)
        => ~res.ok

----------------------------------------------------------------------------
(* C9 *)

\* C9: malformed input rejection.  Whatever string decrypt is given, it
\* returns a value or raises one of its own errors (a DecryptionException);
\* no other kind of error escapes it.
C9_NoCrash ==
    (pc = "done" /\ dcall.op = "decrypt")
        => (res.ok \/ res.err.name = "DecryptionException")

----------------------------------------------------------------------------
(* C10 *)

\* The four failures the claim names, read off the input of decrypt.
TransportFails == payload.enc # "base64"
ParseFails == payload.enc = "base64" /\ payload.of.syntax # "json"
FieldMissing ==
    /\ payload.enc = "base64" /\ payload.of.syntax = "json"
    /\ \/ payload.of.value.t # "object"
       \/ \E f \in {"iv", "value", "tag"} : Field(payload.of.value, f) = Undefined
\* The envelope passed every check before the key loop and no key of the
\* ring decrypted it.
EveryKeyFails ==
    /\ payload.enc = "base64" /\ payload.of.syntax = "json"
    /\ ValidPayload(payload.of.value)
    /\ ~(Truthy(Field(payload.of.value, "exp"))
         /\ JsGreater(dcall.at, payload.of.value.exp))
    /\ ~(Truthy(Field(payload.of.value, "aad")) /\ ~Truthy(dcall.options.context))
    /\ ~BufferFromThrows(payload.of.value.iv)
    /\ ~BufferFromThrows(payload.of.value.tag)
    /\ \A k \in KeysOf(dcall.ring) : ~TryKey(k, payload.of.value, dcall.options).ok

\* C10: error indistinguishability.  decrypt raises the same error, the
\* DecryptionException with its default message, whether transport decoding,
\* structural parsing or field presence failed or every key of the ring
\* failed to authenticate, whatever the number of keys in the ring.
C10_OneGenericError ==
    (/\ pc = "done" /\ dcall.op = "decrypt"
     /\ (TransportFails \/ ParseFails \/ FieldMissing \/ EveryKeyFails))
        => (~res.ok /\ res.err = GenericError)

\* An envelope with a replaced ciphertext has been refused by a ring of
\* three keys, each of which failed to authenticate it.
C10_Witness ==
    /\ Decrypted /\ FieldTampered("value") /\ EveryKeyFails
    /\ Len(dcall.ring) = 3
    /\ ~res.ok /\ res.err = GenericError

----------------------------------------------------------------------------
(* C11 *)

\* A constructor call has ended.
Constructed == pc = "done" /\ dcall.op = "construct"

\* The key strings the constructor was given.
GivenKeys == KeyList(dcall.arg)

\* The number of bytes a key string decodes to: base64 after the prefix
\* 'base64:', the bytes of the string itself otherwise.
DecodedLength(k) ==
    IF k.prefixed THEN (k.chars * 6) \div 8 ELSE k.chars + k.extra

\* C11: construction validation.  Constructing an Encrypter fails with an
\* Error iff the key list is empty or some key does not decode to exactly 32
\* bytes; so every Encrypter that exists holds a non-empty ring of 32-byte
\* keys.
C11_ConstructionValidated ==
    Constructed =>
        /\ ~res.ok <=> \/ Len(GivenKeys) = 0
                       \/ \E i \in 1..Len(GivenKeys) :
                              DecodedLength(GivenKeys[i]) # KeyLength
        /\ ~res.ok => res.err.name = "Error"
        /\ res.ok => /\ Len(res.val.keys) = Len(GivenKeys)
                     /\ Len(res.val.keys) >= 1
                     /\ \A i \in 1..Len(res.val.keys) :
                            res.val.keys[i].len = KeyLength

\* A list of two keys whose first is good and whose second is a character
\* short has been refused.
C11_Witness ==
    /\ Constructed
    /\ dcall.arg.array /\ Len(GivenKeys) = 2
    /\ DecodedLength(GivenKeys[1]) = KeyLength
    /\ DecodedLength(GivenKeys[2]) # KeyLength
    /\ ~res.ok /\ res.err = KeyLengthError

----------------------------------------------------------------------------
(* C12 *)

\* One of the envelope's annotations (v, c, exp, aad) was changed or removed.
AnnotationTampered == tamper.kind = "field" /\ tamper.field \notin CipherFields

\* C12: any tampering makes decrypt fail.  Changing or removing any one field
\* of an encrypted payload yields a payload decrypt does not decrypt; stated
\* here for the annotations v, c, exp and aad, which covers the expired
\* payload whose envelope is altered (C2 states it for iv, value and tag).
C12_TamperFails == (Decrypted /\ AnnotationTampered) => ~res.ok

----------------------------------------------------------------------------
(* C13 *)

\* encrypt has been called and its result is still as it left it.
EncryptCalled == pc = "sent" /\ call.op = "encrypt" /\ Untampered

\* C13: malformed encrypt options fail fast.  An encrypt call whose ttl is
\* negative raises an error and returns no envelope.
C13_FailFast ==
    (EncryptCalled /\ HasTtl /\ call.options.ttl.n < 0)
        => payload.enc # "base64"

----------------------------------------------------------------------------
(* C14 *)

\* deflateSync was applied to the bytes that were encrypted.
CompressionApplied == EncryptData(call.value, call.options).b = "zlib"

\* C14: envelope annotation.  The envelope of every encrypt call has c = true
\* iff compression was applied, exp (equal to the call time plus ttl seconds)
\* iff a ttl was supplied, and aad = true iff a context was supplied and bound
\* as associated data; the context value itself is in no field of it.
C14_Annotation ==
    EncryptCalled =>
        LET e == EnvelopeOf(payload)
        IN  /\ e.c = Bool(TRUE) <=> CompressionApplied
            /\ e.exp # Undefined <=> HasTtl
            /\ HasTtl => e.exp = Num(Deadline)
            /\ e.aad = Bool(TRUE) <=> call.options.context # Undefined
            /\ e.aad = Bool(TRUE) =>
                   e.tag.bytes.aad = call.options.context.text
            /\ IsText(call.options.context) =>
                   \A f \in EnvelopeFields : e[f] # call.options.context

----------------------------------------------------------------------------
(* C15 *)

\* A verify call has ended, on whatever string it was given.
VerifyEnded == pc = "done" /\ dcall.op = "verify"

\* The input of verify decodes to a JSON object.
DecodesToObject ==
    /\ payload.enc = "base64" /\ payload.of.syntax = "json"
    /\ payload.of.value.t = "object"

\* The failures the claim names, read off the input of verify.
SignedFieldMissing ==
    /\ DecodesToObject
    /\ \E f \in {"value", "signature"} : Field(payload.of.value, f) = Undefined
WrongSignatureType ==
    /\ DecodesToObject
    /\ Field(payload.of.value, "signature").t # "string"
WrongSignatureLength ==
    /\ DecodesToObject
    /\ IsHexStr(Field(payload.of.value, "signature"))
    /\ payload.of.value.signature.chars # HexDigestLength
NoKeyMatches ==
    /\ DecodesToObject
    /\ \A k \in KeysOf(dcall.ring) : ~SignatureMatches(k, payload.of.value)

\* C15: generic signature error.  verify either returns the deserialized value
\* of an envelope whose signature matches under some key of the ring, or
\* raises the one signature error: undecodable input, a missing field, a
\* signature of the wrong length or type and no matching key all raise it,
\* and no other error escapes verify.
C15_GenericSignatureError ==
    VerifyEnded =>
        /\ ~res.ok => res.err = SignatureError
        /\ res.ok =>
               /\ DecodesToObject
               /\ \E k \in KeysOf(dcall.ring) :
                      SignatureMatches(k, payload.of.value)
               /\ res.val = JsonParse(payload.of.value.value.text)
        /\ (\/ ~DecodesToObject \/ SignedFieldMissing
            \/ WrongSignatureType \/ WrongSignatureLength \/ NoKeyMatches)
               => ~res.ok

----------------------------------------------------------------------------
(* C16 *)

\* A decrypt call has ended, on whatever string it was given.
DecryptEnded == pc = "done" /\ dcall.op = "decrypt"

\* The input of decrypt decodes to an envelope that passes validation.
Validates ==
    /\ payload.enc = "base64" /\ payload.of.syntax = "json"
    /\ ValidPayload(payload.of.value)
\* The envelope carries an exp that lies before the decrypt call.
PayloadExpired ==
    /\ Field(payload.of.value, "exp").t = "number"
    /\ dcall.at > payload.of.value.exp.n
\* The envelope carries the aad flag and decrypt was given no context.
ContextMissing ==
    /\ Field(payload.of.value, "aad") = Bool(TRUE)
    /\ dcall.options.context = Undefined

\* C16: order of decrypt's checks.  decrypt decodes and validates the
\* envelope, then checks expiry, then the context requirement, and only then
\* makes its first cipher attempt: a payload that does not validate raises
\* the generic error, an expired one the expiration error, an unexpired one
\* that requires a context and gets none the context-required error, each
\* with zero cipher attempts, whatever else is wrong with the payload.
C16_CheckOrder ==
    DecryptEnded =>
        /\ ~Validates =>
               (~res.ok /\ res.err = GenericError /\ attempts = 0)
        /\ (Validates /\ PayloadExpired) =>
               (~res.ok /\ res.err = ExpiredError /\ attempts = 0)
        /\ (Validates /\ ~PayloadExpired /\ ContextMissing) =>
               (~res.ok /\ res.err = ContextRequiredError /\ attempts = 0)
        /\ attempts > 0 =>
               (Validates /\ ~PayloadExpired /\ ~ContextMissing)

\* An expired payload bound to a context, with its ciphertext replaced, has
\* been handed without a context to an Encrypter that lacks its key: the
\* expiration error was raised and no cipher attempt was made.
C16_Witness ==
    /\ Decrypted /\ FieldTampered("value") /\ Validates
    /\ PayloadExpired /\ ContextMissing /\ ~HoldsKey
    /\ ~res.ok /\ res.err = ExpiredError /\ attempts = 0

====
